---- MODULE Spec2Model ----
(***************************************************************************)
(* MetadataBuilder (Datadog.Trace.ClrProfiler.Native/metadata_builder.cpp) *)
(* resolves assembly, type and member references against the metadata      *)
(* store of one module and memoizes the resulting tokens in ModuleMetadata. *)
(*                                                                         *)
(* The store (IMetaDataImport2 / IMetaDataEmit / IMetaDataAssemblyImport / *)
(* IMetaDataAssemblyEmit) is an external collaborator: each of its calls   *)
(* answers with any outcome its interface allows.  A resolution operation  *)
(* is therefore a set-valued operator: the set of all results the call can *)
(* produce from a given state, one per way the store can answer.           *)
(***************************************************************************)
EXTENDS Integers, Sequences, FiniteSets

VARIABLES
  asm_refs,          \* the store's assembly reference table (names referenced)
  type_refs,         \* metadata_.type_refs : foundational type name -> token
  type_ref_cache,    \* metadata_ wrapper parent type cache : type key -> token
  member_ref_cache,  \* metadata_ wrapper member cache : method key -> token
  pc,                \* position of the caller: "idle", or inside StoreMethodAdvice
  call,              \* the call in progress or last returned, with its results
  trace,             \* store and cache operations of the latest resolution, in order
  ncalls             \* number of calls made by the instrumentation engine

vars == <<asm_refs, type_refs, type_ref_cache, member_ref_cache, pc, call,
          trace, ncalls>>

----------------------------------------------------------------------------
\* Bounds of the model.

\* number of distinct tokens the store may hand out per table
MaxTokens == 2
\* number of calls the instrumentation engine makes after construction
MaxCalls == 2

----------------------------------------------------------------------------
\* HRESULT codes and nil tokens.

S_OK == 0
\* HRESULT is a signed 32-bit integer: E_FAIL is 0x80004005
E_FAIL == -2147467259
\* HRESULT(0x80131130), "record not found on lookup"
CLDB_E_RECORD_NOTFOUND == -2146234064
\* the failures of the store other than "record not found": E_INVALIDARG
\* (0x80070057) stands for them, a code the resolver itself never produces
StoreFailures == {-2147024809}

\* FAILED(hr): the severity bit (the sign bit) of the HRESULT is set
FAILED(hr) == hr < 0

mdAssemblyRefNil == 587202560
mdTypeRefNil == 16777216
mdMemberRefNil == 167772160
\* the mdModule token of the module being instrumented
module_ == 1

TypeTokens == {mdTypeRefNil + i : i \in 1..MaxTokens}
MemberTokens == {mdMemberRefNil + i : i \in 1..MaxTokens}

----------------------------------------------------------------------------
\* Logical reference descriptors handed in by the instrumentation engine.

\* metadata_.assemblyName
assemblyName == "MyApp"

NoKey == <<0, 0, 0, 0, 0, 0, 0, 0>>
MyAppAssembly ==
  [name |-> "MyApp", version |-> <<1, 0, 0, 0>>, locale |-> "neutral",
   public_key |-> NoKey]
LibAssembly ==
  [name |-> "Lib", version |-> <<1, 2, 3, 4>>, locale |-> "fr-FR",
   public_key |-> <<222, 240, 13, 0, 0, 0, 0, 1>>]
AssemblyReferences == {MyAppAssembly, LibAssembly}

TypeReferences ==
  {[assembly |-> a, type_name |-> "Helper"] : a \in AssemblyReferences}

MethodNames == {"OnEnter", "OnExit"}
MethodReferences ==
  {[type_reference |-> t, method_name |-> n, method_signature |-> <<0, 0, 1>>] :
     t \in TypeReferences, n \in MethodNames}

\* OnMethodEnterReference() / OnMethodExitReference() of a MethodAdvice
MethodAdvices ==
  {[on_enter |-> e, on_exit |-> x] :
     e \in {m \in MethodReferences : m.method_name = "OnEnter"},
     x \in {m \in MethodReferences : m.method_name = "OnExit"}}

NoAssembly ==
  [name |-> "", version |-> <<0, 0, 0, 0>>, locale |-> "", public_key |-> NoKey]
NoType == [assembly |-> NoAssembly, type_name |-> ""]
NoMethod == [type_reference |-> NoType, method_name |-> "", method_signature |-> <<>>]

\* TypeReference::get_type_cache_key
get_type_cache_key(t) == <<t.assembly, t.type_name>>
\* MethodReference::get_method_cache_key
get_method_cache_key(m) ==
  <<get_type_cache_key(m.type_reference), m.method_name, m.method_signature>>

----------------------------------------------------------------------------
\* ModuleMetadata caches (unordered maps from cache key to token).

TryGetWrapperParentTypeRef(tc, key) == key \in DOMAIN tc
SetWrapperParentTypeRef(tc, key, tok) ==
  [k \in DOMAIN tc \cup {key} |-> IF k = key THEN tok ELSE tc[k]]
TryGetWrapperMemberRef(mc, key) == key \in DOMAIN mc
SetWrapperMemberRef(mc, key, tok) ==
  [k \in DOMAIN mc \cup {key} |-> IF k = key THEN tok ELSE mc[k]]

EmptyCache == [k \in {} |-> 0]

----------------------------------------------------------------------------
\* The store.

\* names the store can hold an assembly reference for
AssemblyNames == <<"System.Runtime", "mscorlib", "netstandard", "MyApp", "Lib">>
AssemblyRefToken(name) ==
  mdAssemblyRefNil + (CHOOSE i \in 1..Len(AssemblyNames) : AssemblyNames[i] = name)

\* FindAssemblyRef(assembly_import_, name): the token of the reference to the
\* named assembly, or mdAssemblyRefNil when the store has none
FindAssemblyRef(ars, name) ==
  IF name \in ars THEN AssemblyRefToken(name) ELSE mdAssemblyRefNil

\* what a Define... call of the store can answer: a token, or a failure
DefineOutcomes(toks, nil) ==
  {[hr |-> S_OK, out |-> t] : t \in toks}
    \cup {[hr |-> e, out |-> nil] : e \in StoreFailures}
\* what a Find... call of the store can answer: a token, not found, or a failure
FindOutcomes(toks, nil) ==
  DefineOutcomes(toks, nil) \cup {[hr |-> CLDB_E_RECORD_NOTFOUND, out |-> nil]}

\* one entry of the trace: a store call or a cache access with its result
Ev(op, scope, name, key, hr, out) ==
  [op |-> op, scope |-> scope, name |-> name, key |-> key, hr |-> hr, out |-> out,
   sig |-> <<>>, pubkey |-> <<>>, cbKey |-> 0, szLocale |-> "", cbLocale |-> 0]

StoreOps ==
  {"FindAssemblyRef", "DefineAssemblyRef", "FindTypeRef", "DefineTypeRefByName",
   "FindMemberRef", "DefineMemberRef"}
IsStoreOp(e) == e.op \in StoreOps
StoreCalls(tr) == SelectSeq(tr, IsStoreOp)

\* C++ null pointer passed as szLocale
nullptr == "<nullptr>"

\* RETURN_IF_FAILED(hr) / LOG_IFFAILEDRET(hr, msg): TRUE when the macro leaves
\* the enclosing function, which then returns hr unchanged
RETURN_IF_FAILED(hr) == FAILED(hr)
LOG_IFFAILEDRET(hr) == FAILED(hr)

----------------------------------------------------------------------------
\* MetadataBuilder::EmitAssemblyRef

\* EmitLocale without the "neutral" sentinel: the locale string is always
\* handed over
EmitLocale_NoSentinel(assembly_ref) ==
  [szLocale |-> assembly_ref.locale, cbLocale |-> Len(assembly_ref.locale)]

\* szLocale / cbLocale of the ASSEMBLYMETADATA handed to the store
EmitLocale(assembly_ref) ==
  IF assembly_ref.locale = "neutral"
  THEN [szLocale |-> nullptr, cbLocale |-> 0]
  ELSE [szLocale |-> assembly_ref.locale, cbLocale |-> Len(assembly_ref.locale)]

\* EmitPublicKeySize looking at the first byte of the key only
EmitPublicKeySize_FirstByteOnly(assembly_ref) ==
  IF assembly_ref.public_key[1] = 0 THEN 0 ELSE 8

\* public_key_size: 8, or 0 for the default (all-zero) trace::PublicKey()
EmitPublicKeySize(assembly_ref) ==
  IF assembly_ref.public_key = NoKey THEN 0 ELSE 8

\* All results of EmitAssemblyRef(assembly_ref) with the store's assembly table
\* ars: the HRESULT returned, the table afterwards and the operations issued.
EmitAssemblyRef(ars, assembly_ref) ==
  LET loc == EmitLocale(assembly_ref)
      call_of(d) ==
        [Ev("DefineAssemblyRef", 0, assembly_ref.name, <<>>, d.hr, d.out)
           EXCEPT !.pubkey = assembly_ref.public_key,
                  !.cbKey = EmitPublicKeySize(assembly_ref),
                  !.szLocale = loc.szLocale,
                  !.cbLocale = loc.cbLocale]
  IN  { IF LOG_IFFAILEDRET(d.hr)
        THEN [hr |-> d.hr, asm_refs |-> ars, trace |-> <<call_of(d)>>]
        ELSE [hr |-> S_OK, asm_refs |-> ars \cup {assembly_ref.name},
              trace |-> <<call_of(d)>>]
        : d \in DefineOutcomes({AssemblyRefToken(assembly_ref.name)},
                               mdAssemblyRefNil) }

----------------------------------------------------------------------------
\* MetadataBuilder::FindTypeReference

\* FindTypeReferenceReturn handing the typeRef out without caching it
\* (line 129 left out)
FindTypeReferenceReturn_NoCache(tc, cache_key, hr, type_ref, tr) ==
  IF RETURN_IF_FAILED(hr)
  THEN [hr |-> hr, type_ref_out |-> mdTypeRefNil, type_ref_cache |-> tc,
        trace |-> tr]
  ELSE [hr |-> S_OK, type_ref_out |-> type_ref, type_ref_cache |-> tc,
        trace |-> tr]

\* RETURN_IF_FAILED(hr), then cache the typeRef and hand it out
FindTypeReferenceReturn(tc, cache_key, hr, type_ref, tr) ==
  IF RETURN_IF_FAILED(hr)
  THEN [hr |-> hr, type_ref_out |-> mdTypeRefNil, type_ref_cache |-> tc,
        trace |-> tr]
  ELSE [hr |-> S_OK, type_ref_out |-> type_ref,
        type_ref_cache |-> SetWrapperParentTypeRef(tc, cache_key, type_ref),
        trace |-> Append(tr, Ev("SetWrapperParentTypeRef", 0, "", cache_key,
                                S_OK, type_ref))]

\* FindTypeReferenceSameModule searching the module scope before defining,
\* as the other branch does
FindTypeReferenceSameModule_SearchFirst(tc, cache_key, type_reference, tr) ==
  LET find(f) == Ev("FindTypeRef", module_, type_reference.type_name,
                    cache_key, f.hr, f.out)
      define(d) == Ev("DefineTypeRefByName", module_, type_reference.type_name,
                      cache_key, d.hr, d.out)
  IN  UNION {
        IF f.hr = CLDB_E_RECORD_NOTFOUND
        THEN { FindTypeReferenceReturn(tc, cache_key, d.hr, d.out,
                 tr \o <<find(f), define(d)>>)
               : d \in DefineOutcomes(TypeTokens, mdTypeRefNil) }
        ELSE { FindTypeReferenceReturn(tc, cache_key, f.hr, f.out,
                 Append(tr, find(f))) }
        : f \in FindOutcomes(TypeTokens, mdTypeRefNil) }

\* the type is defined in this assembly: define the reference in module scope
FindTypeReferenceSameModule(tc, cache_key, type_reference, tr) ==
  { FindTypeReferenceReturn(tc, cache_key, d.hr, d.out,
      Append(tr, Ev("DefineTypeRefByName", module_, type_reference.type_name,
                    cache_key, d.hr, d.out)))
    : d \in DefineOutcomes(TypeTokens, mdTypeRefNil) }

\* FindTypeReferenceSearch defining the reference without searching first
FindTypeReferenceSearch_DefineOnly(tc, cache_key, type_reference, assembly_ref, tr) ==
  { FindTypeReferenceReturn(tc, cache_key, d.hr, d.out,
      Append(tr, Ev("DefineTypeRefByName", assembly_ref,
                    type_reference.type_name, cache_key, d.hr, d.out)))
    : d \in DefineOutcomes(TypeTokens, mdTypeRefNil) }

\* FindTypeReferenceSearch without the fallback of lines 119-123: whatever the
\* search answered is the result
FindTypeReferenceSearch_NoFallback(tc, cache_key, type_reference, assembly_ref, tr) ==
  { FindTypeReferenceReturn(tc, cache_key, f.hr, f.out,
      Append(tr, Ev("FindTypeRef", assembly_ref, type_reference.type_name,
                    cache_key, f.hr, f.out)))
    : f \in FindOutcomes(TypeTokens, mdTypeRefNil) }

\* search the store for a reference to the type in scope assembly_ref; define
\* one when the search reports "record not found"
FindTypeReferenceSearch(tc, cache_key, type_reference, assembly_ref, tr) ==
  LET find(f) == Ev("FindTypeRef", assembly_ref, type_reference.type_name,
                    cache_key, f.hr, f.out)
      define(d) == Ev("DefineTypeRefByName", assembly_ref,
                      type_reference.type_name, cache_key, d.hr, d.out)
  IN  UNION {
        IF f.hr = CLDB_E_RECORD_NOTFOUND
        THEN { FindTypeReferenceReturn(tc, cache_key, d.hr, d.out,
                 tr \o <<find(f), define(d)>>)
               : d \in DefineOutcomes(TypeTokens, mdTypeRefNil) }
        ELSE { FindTypeReferenceReturn(tc, cache_key, f.hr, f.out,
                 Append(tr, find(f))) }
        : f \in FindOutcomes(TypeTokens, mdTypeRefNil) }

\* FindTypeReferenceOtherAssembly without the mdAssemblyRefNil check of lines
\* 108-113: the search goes on in the nil scope
FindTypeReferenceOtherAssembly_NoNilCheck(tc, ars, cache_key, type_reference, tr) ==
  LET assembly_ref == FindAssemblyRef(ars, type_reference.assembly.name)
  IN  FindTypeReferenceSearch(tc, cache_key, type_reference, assembly_ref,
        Append(tr, Ev("FindAssemblyRef", 0, type_reference.assembly.name,
                      cache_key, S_OK, assembly_ref)))

\* the type is defined in another assembly: find the reference to that
\* assembly, fail with E_FAIL when there is none, else search or define the type
FindTypeReferenceOtherAssembly(tc, ars, cache_key, type_reference, tr) ==
  LET assembly_ref == FindAssemblyRef(ars, type_reference.assembly.name)
      tr1 == Append(tr, Ev("FindAssemblyRef", 0, type_reference.assembly.name,
                           cache_key, S_OK, assembly_ref))
  IN  IF assembly_ref = mdAssemblyRefNil
      THEN {[hr |-> E_FAIL, type_ref_out |-> mdTypeRefNil, type_ref_cache |-> tc,
             trace |-> tr1]}
      ELSE FindTypeReferenceSearch(tc, cache_key, type_reference, assembly_ref,
                                   tr1)

\* FindTypeReference without the cache lookup of lines 88-92: every call
\* negotiates with the store again
FindTypeReference_NoCacheLookup(tc, ars, type_reference) ==
  LET cache_key == get_type_cache_key(type_reference)
      tr == <<Ev("TryGetWrapperParentTypeRef", 0, "", cache_key, S_OK,
                 mdTypeRefNil)>>
  IN  IF assemblyName = type_reference.assembly.name
      THEN FindTypeReferenceSameModule(tc, cache_key, type_reference, tr)
      ELSE FindTypeReferenceOtherAssembly(tc, ars, cache_key, type_reference, tr)

\* All results of FindTypeReference(type_reference, type_ref_out) with cache tc
\* and the store's assembly table ars.
FindTypeReference(tc, ars, type_reference) ==
  LET cache_key == get_type_cache_key(type_reference)
      hit == TryGetWrapperParentTypeRef(tc, cache_key)
      tr == <<Ev("TryGetWrapperParentTypeRef", 0, "", cache_key, S_OK,
                 IF hit THEN tc[cache_key] ELSE mdTypeRefNil)>>
  IN  IF hit
      THEN {[hr |-> S_OK, type_ref_out |-> tc[cache_key], type_ref_cache |-> tc,
             trace |-> tr]}
      ELSE IF assemblyName = type_reference.assembly.name
           THEN FindTypeReferenceSameModule(tc, cache_key, type_reference, tr)
           ELSE FindTypeReferenceOtherAssembly(tc, ars, cache_key,
                                               type_reference, tr)

----------------------------------------------------------------------------
\* MetadataBuilder::StoreMethodReference

\* StoreMethodReferenceMember keeping the search's out-parameter when the
\* search found nothing and the define succeeded
StoreMethodReferenceMember_KeepsSearchResult(tc, mc, ars, cache_key, method_reference, type_ref, tr) ==
  LET find(f) ==
        [Ev("FindMemberRef", type_ref, method_reference.method_name, cache_key,
            f.hr, f.out) EXCEPT !.sig = method_reference.method_signature]
      define(d) ==
        [Ev("DefineMemberRef", type_ref, method_reference.method_name, cache_key,
            d.hr, d.out) EXCEPT !.sig = method_reference.method_signature]
      return(hr, member_ref, tr1) ==
        IF RETURN_IF_FAILED(hr)
        THEN [hr |-> hr, type_ref_cache |-> tc, member_ref_cache |-> mc,
              asm_refs |-> ars, trace |-> tr1]
        ELSE [hr |-> S_OK, type_ref_cache |-> tc,
              member_ref_cache |-> SetWrapperMemberRef(mc, cache_key, member_ref),
              asm_refs |-> ars,
              trace |-> Append(tr1, Ev("SetWrapperMemberRef", 0, "", cache_key,
                                       S_OK, member_ref))]
  IN  UNION {
        IF f.hr = CLDB_E_RECORD_NOTFOUND
        THEN { return(d.hr, f.out, tr \o <<find(f), define(d)>>)
               : d \in DefineOutcomes(MemberTokens, mdMemberRefNil) }
        ELSE { return(f.hr, f.out, Append(tr, find(f))) }
        : f \in FindOutcomes(MemberTokens, mdMemberRefNil) }

\* StoreMethodReferenceMember with SetWrapperMemberRef moved before
\* RETURN_IF_FAILED(hr): the memberRef is cached whatever the store answered
StoreMethodReferenceMember_CacheBeforeCheck(tc, mc, ars, cache_key, method_reference, type_ref, tr) ==
  LET find(f) ==
        [Ev("FindMemberRef", type_ref, method_reference.method_name, cache_key,
            f.hr, f.out) EXCEPT !.sig = method_reference.method_signature]
      define(d) ==
        [Ev("DefineMemberRef", type_ref, method_reference.method_name, cache_key,
            d.hr, d.out) EXCEPT !.sig = method_reference.method_signature]
      return(hr, member_ref, tr1) ==
        [hr |-> IF RETURN_IF_FAILED(hr) THEN hr ELSE S_OK, type_ref_cache |-> tc,
         member_ref_cache |-> SetWrapperMemberRef(mc, cache_key, member_ref),
         asm_refs |-> ars,
         trace |-> Append(tr1, Ev("SetWrapperMemberRef", 0, "", cache_key,
                                  S_OK, member_ref))]
  IN  UNION {
        IF f.hr = CLDB_E_RECORD_NOTFOUND
        THEN { return(d.hr, d.out, tr \o <<find(f), define(d)>>)
               : d \in DefineOutcomes(MemberTokens, mdMemberRefNil) }
        ELSE { return(f.hr, f.out, Append(tr, find(f))) }
        : f \in FindOutcomes(MemberTokens, mdMemberRefNil) }

\* search the store for the member reference, define it when the search finds
\* none, RETURN_IF_FAILED(hr), then cache the memberRef
StoreMethodReferenceMember(tc, mc, ars, cache_key, method_reference, type_ref, tr) ==
  LET find(f) ==
        [Ev("FindMemberRef", type_ref, method_reference.method_name, cache_key,
            f.hr, f.out) EXCEPT !.sig = method_reference.method_signature]
      define(d) ==
        [Ev("DefineMemberRef", type_ref, method_reference.method_name, cache_key,
            d.hr, d.out) EXCEPT !.sig = method_reference.method_signature]
      return(hr, member_ref, tr1) ==
        IF RETURN_IF_FAILED(hr)
        THEN [hr |-> hr, type_ref_cache |-> tc, member_ref_cache |-> mc,
              asm_refs |-> ars, trace |-> tr1]
        ELSE [hr |-> S_OK, type_ref_cache |-> tc,
              member_ref_cache |-> SetWrapperMemberRef(mc, cache_key, member_ref),
              asm_refs |-> ars,
              trace |-> Append(tr1, Ev("SetWrapperMemberRef", 0, "", cache_key,
                                       S_OK, member_ref))]
  IN  UNION {
        IF f.hr = CLDB_E_RECORD_NOTFOUND
        THEN { return(d.hr, d.out, tr \o <<find(f), define(d)>>)
               : d \in DefineOutcomes(MemberTokens, mdMemberRefNil) }
        ELSE { return(f.hr, f.out, Append(tr, find(f))) }
        : f \in FindOutcomes(MemberTokens, mdMemberRefNil) }

\* StoreMethodReferenceType resolving the owning type without consulting
\* the type cache
StoreMethodReferenceType_NoTypeCache(tc, mc, ars, cache_key, method_reference, tr) ==
  UNION {
    IF RETURN_IF_FAILED(t.hr)
    THEN {[hr |-> t.hr, type_ref_cache |-> t.type_ref_cache,
           member_ref_cache |-> mc, asm_refs |-> ars, trace |-> tr \o t.trace]}
    ELSE StoreMethodReferenceMember(t.type_ref_cache, mc, ars, cache_key,
                                    method_reference, t.type_ref_out,
                                    tr \o t.trace)
    : t \in FindTypeReference_NoCacheLookup(tc, ars,
                                            method_reference.type_reference) }

\* resolve the owning type, RETURN_IF_FAILED(hr), then resolve the member
StoreMethodReferenceType(tc, mc, ars, cache_key, method_reference, tr) ==
  UNION {
    IF RETURN_IF_FAILED(t.hr)
    THEN {[hr |-> t.hr, type_ref_cache |-> t.type_ref_cache,
           member_ref_cache |-> mc, asm_refs |-> ars, trace |-> tr \o t.trace]}
    ELSE StoreMethodReferenceMember(t.type_ref_cache, mc, ars, cache_key,
                                    method_reference, t.type_ref_out,
                                    tr \o t.trace)
    : t \in FindTypeReference(tc, ars, method_reference.type_reference) }

\* StoreMethodReference without the cache lookup of lines 154-157
StoreMethodReference_NoCacheLookup(tc, mc, ars, method_reference) ==
  LET cache_key == get_method_cache_key(method_reference)
      tr == <<Ev("TryGetWrapperMemberRef", 0, "", cache_key, S_OK,
                 mdMemberRefNil)>>
  IN  UNION {
        IF FAILED(e.hr)
        THEN {[hr |-> e.hr, type_ref_cache |-> tc, member_ref_cache |-> mc,
               asm_refs |-> e.asm_refs, trace |-> tr \o e.trace]}
        ELSE StoreMethodReferenceType(tc, mc, e.asm_refs, cache_key,
                                      method_reference, tr \o e.trace)
        : e \in EmitAssemblyRef(ars, method_reference.type_reference.assembly) }

\* StoreMethodReference going on to the type and the member when
\* EmitAssemblyRef failed (lines 160-162 left out)
StoreMethodReference_IgnoresEmitFailure(tc, mc, ars, method_reference) ==
  LET cache_key == get_method_cache_key(method_reference)
      hit == TryGetWrapperMemberRef(mc, cache_key)
      tr == <<Ev("TryGetWrapperMemberRef", 0, "", cache_key, S_OK,
                 IF hit THEN mc[cache_key] ELSE mdMemberRefNil)>>
  IN  IF hit
      THEN {[hr |-> S_OK, type_ref_cache |-> tc, member_ref_cache |-> mc,
             asm_refs |-> ars, trace |-> tr]}
      ELSE UNION {
             StoreMethodReferenceType(tc, mc, e.asm_refs, cache_key,
                                      method_reference, tr \o e.trace)
             : e \in EmitAssemblyRef(ars, method_reference.type_reference.assembly) }

\* StoreMethodReference emitting the assembly reference only when the store
\* has none yet and the assembly is not the module's own
StoreMethodReference_EmitOnlyIfMissing(tc, mc, ars, method_reference) ==
  LET cache_key == get_method_cache_key(method_reference)
      hit == TryGetWrapperMemberRef(mc, cache_key)
      name == method_reference.type_reference.assembly.name
      tr == <<Ev("TryGetWrapperMemberRef", 0, "", cache_key, S_OK,
                 IF hit THEN mc[cache_key] ELSE mdMemberRefNil)>>
  IN  IF hit
      THEN {[hr |-> S_OK, type_ref_cache |-> tc, member_ref_cache |-> mc,
             asm_refs |-> ars, trace |-> tr]}
      ELSE IF name \in ars \/ name = assemblyName
      THEN StoreMethodReferenceType(tc, mc, ars, cache_key, method_reference, tr)
      ELSE UNION {
             IF FAILED(e.hr)
             THEN {[hr |-> e.hr, type_ref_cache |-> tc, member_ref_cache |-> mc,
                    asm_refs |-> e.asm_refs, trace |-> tr \o e.trace]}
             ELSE StoreMethodReferenceType(tc, mc, e.asm_refs, cache_key,
                                           method_reference, tr \o e.trace)
             : e \in EmitAssemblyRef(ars, method_reference.type_reference.assembly) }

\* StoreMethodReference going to the type without emitting the assembly
\* reference (lines 159-162 left out)
StoreMethodReference_NoEmit(tc, mc, ars, method_reference) ==
  LET cache_key == get_method_cache_key(method_reference)
      hit == TryGetWrapperMemberRef(mc, cache_key)
      tr == <<Ev("TryGetWrapperMemberRef", 0, "", cache_key, S_OK,
                 IF hit THEN mc[cache_key] ELSE mdMemberRefNil)>>
  IN  IF hit
      THEN {[hr |-> S_OK, type_ref_cache |-> tc, member_ref_cache |-> mc,
             asm_refs |-> ars, trace |-> tr]}
      ELSE StoreMethodReferenceType(tc, mc, ars, cache_key, method_reference, tr)

\* All results of StoreMethodReference(method_reference) with caches tc and mc
\* and the store's assembly table ars.
StoreMethodReference(tc, mc, ars, method_reference) ==
  LET cache_key == get_method_cache_key(method_reference)
      hit == TryGetWrapperMemberRef(mc, cache_key)
      tr == <<Ev("TryGetWrapperMemberRef", 0, "", cache_key, S_OK,
                 IF hit THEN mc[cache_key] ELSE mdMemberRefNil)>>
  IN  IF hit
      THEN {[hr |-> S_OK, type_ref_cache |-> tc, member_ref_cache |-> mc,
             asm_refs |-> ars, trace |-> tr]}
      ELSE UNION {
             IF FAILED(e.hr)
             THEN {[hr |-> e.hr, type_ref_cache |-> tc, member_ref_cache |-> mc,
                    asm_refs |-> e.asm_refs, trace |-> tr \o e.trace]}
             ELSE StoreMethodReferenceType(tc, mc, e.asm_refs, cache_key,
                                           method_reference, tr \o e.trace)
             : e \in EmitAssemblyRef(ars, method_reference.type_reference.assembly) }

----------------------------------------------------------------------------
\* MetadataBuilder::MetadataBuilder

possible_assembly_names == <<"System.Runtime", "mscorlib", "netstandard">>
type_names == <<"System.Object", "System.Exception">>

\* FindSystemAssembly without the break of lines 27-29: every candidate is
\* looked up and the last one decides
FindSystemAssembly_NoBreak(ars, i) ==
  LET FromCandidate[j \in 1..(Len(possible_assembly_names) + 1)] ==
        IF j > Len(possible_assembly_names)
        THEN [systemasm |-> mdAssemblyRefNil, trace |-> <<>>]
        ELSE LET systemasm == FindAssemblyRef(ars, possible_assembly_names[j])
                 ev == Ev("FindAssemblyRef", 0, possible_assembly_names[j], <<>>,
                          S_OK, systemasm)
             IN  [systemasm |-> IF j = Len(possible_assembly_names)
                                THEN systemasm
                                ELSE FromCandidate[j + 1].systemasm,
                  trace |-> <<ev>> \o FromCandidate[j + 1].trace]
  IN  FromCandidate[i]

\* the loop over possible_assembly_names from candidate i on: systemasm and the
\* lookups issued
FindSystemAssembly(ars, i) ==
  LET FromCandidate[j \in 1..(Len(possible_assembly_names) + 1)] ==
        IF j > Len(possible_assembly_names)
        THEN [systemasm |-> mdAssemblyRefNil, trace |-> <<>>]
        ELSE LET systemasm == FindAssemblyRef(ars, possible_assembly_names[j])
                 ev == Ev("FindAssemblyRef", 0, possible_assembly_names[j], <<>>,
                          S_OK, systemasm)
             IN  IF systemasm # mdAssemblyRefNil
                 THEN [systemasm |-> systemasm, trace |-> <<ev>>]
                 ELSE [systemasm |-> FromCandidate[j + 1].systemasm,
                       trace |-> <<ev>> \o FromCandidate[j + 1].trace]
  IN  FromCandidate[i]

\* DefineSystemTypes leaving the loop at the first name the store refuses
DefineSystemTypes_AbortOnFailure(systemasm) ==
  LET define(i, d) == Ev("DefineTypeRefByName", systemasm, type_names[i], <<>>,
                         d.hr, d.out)
      store(refs, i, d) ==
        [n \in DOMAIN refs \cup {type_names[i]} |->
           IF n = type_names[i] THEN d.out ELSE refs[n]]
  IN  UNION {
        IF FAILED(d1.hr)
        THEN {[type_refs |-> EmptyCache, trace |-> <<define(1, d1)>>]}
        ELSE { [type_refs |-> IF FAILED(d2.hr)
                              THEN store(EmptyCache, 1, d1)
                              ELSE store(store(EmptyCache, 1, d1), 2, d2),
                trace |-> <<define(1, d1), define(2, d2)>>]
               : d2 \in DefineOutcomes(TypeTokens, mdTypeRefNil) }
        : d1 \in DefineOutcomes(TypeTokens, mdTypeRefNil) }

\* the loop over type_names: every way the two DefineTypeRefByName calls can
\* answer, with the type_refs map and the operations that result
DefineSystemTypes(systemasm) ==
  LET define(i, d) == Ev("DefineTypeRefByName", systemasm, type_names[i], <<>>,
                         d.hr, d.out)
      store(refs, i, d) ==
        IF ~FAILED(d.hr)
        THEN [n \in DOMAIN refs \cup {type_names[i]} |->
                IF n = type_names[i] THEN d.out ELSE refs[n]]
        ELSE refs
  IN  { [type_refs |-> store(store(EmptyCache, 1, d1), 2, d2),
         trace |-> <<define(1, d1), define(2, d2)>>]
        : d1 \in DefineOutcomes(TypeTokens, mdTypeRefNil),
          d2 \in DefineOutcomes(TypeTokens, mdTypeRefNil) }

\* All results of constructing a MetadataBuilder over a store whose assembly
\* table is ars.
MetadataBuilder(ars) ==
  LET sys == FindSystemAssembly(ars, 1)
  IN  { [type_refs |-> t.type_refs, trace |-> sys.trace \o t.trace]
        : t \in DefineSystemTypes(sys.systemasm) }

----------------------------------------------------------------------------
\* The instrumentation engine: construction, then a bounded number of calls,
\* one at a time (the resolver is single-threaded and synchronous).

\* the assembly references a module's store may hold before instrumentation
InitialAsmRefs == {{"mscorlib"}, {"netstandard", "Lib"}}

\* the constructions in which the store accepted both foundational types
\* (with its first token)
Constructed(ars) ==
  {c \in MetadataBuilder(ars) :
     c.type_refs = [n \in {type_names[i] : i \in DOMAIN type_names} |->
                      mdTypeRefNil + 1]}

NoCall ==
  [op |-> "", type_reference |-> NoType, on_enter |-> NoMethod,
   on_exit |-> NoMethod, hr |-> S_OK, type_ref_out |-> mdTypeRefNil,
   enter_hr |-> S_OK, exit_called |-> FALSE, exit_hr |-> S_OK]

\* the state after construction of the MetadataBuilder
Init ==
  \E ars \in InitialAsmRefs :
    \E c \in Constructed(ars) :
      /\ asm_refs = ars
      /\ type_refs = c.type_refs
      /\ type_ref_cache = EmptyCache
      /\ member_ref_cache = EmptyCache
      /\ pc = "idle"
      /\ call = [NoCall EXCEPT !.op = "MetadataBuilder"]
      /\ trace = c.trace
      /\ ncalls = 0

\* a direct call of FindTypeReference
DoFindTypeReference ==
  /\ pc = "idle"
  /\ ncalls < MaxCalls
  /\ \E t \in TypeReferences :
       \E r \in FindTypeReference(type_ref_cache, asm_refs, t) :
         /\ type_ref_cache' = r.type_ref_cache
         /\ call' = [NoCall EXCEPT !.op = "FindTypeReference",
                                   !.type_reference = t,
                                   !.hr = r.hr,
                                   !.type_ref_out = r.type_ref_out]
         /\ trace' = r.trace
  /\ ncalls' = ncalls + 1
  /\ UNCHANGED <<asm_refs, type_refs, member_ref_cache, pc>>

\* a direct call of StoreMethodReference
DoStoreMethodReference ==
  /\ pc = "idle"
  /\ ncalls < MaxCalls
  /\ \E m \in MethodReferences :
       \E r \in StoreMethodReference(type_ref_cache, member_ref_cache, asm_refs, m) :
         /\ type_ref_cache' = r.type_ref_cache
         /\ member_ref_cache' = r.member_ref_cache
         /\ asm_refs' = r.asm_refs
         /\ call' = [NoCall EXCEPT !.op = "StoreMethodReference",
                                   !.on_enter = m,
                                   !.hr = r.hr]
         /\ trace' = r.trace
  /\ ncalls' = ncalls + 1
  /\ UNCHANGED <<type_refs, pc>>

\* StoreMethodAdviceEnter without the early return of lines 137-139
StoreMethodAdviceEnter_NoEarlyReturn ==
  /\ pc = "idle"
  /\ ncalls < MaxCalls
  /\ \E a \in MethodAdvices :
       \E r \in StoreMethodReference(type_ref_cache, member_ref_cache, asm_refs,
                                     a.on_enter) :
         /\ type_ref_cache' = r.type_ref_cache
         /\ member_ref_cache' = r.member_ref_cache
         /\ asm_refs' = r.asm_refs
         /\ call' = [NoCall EXCEPT !.op = "StoreMethodAdvice",
                                   !.on_enter = a.on_enter,
                                   !.on_exit = a.on_exit,
                                   !.hr = r.hr,
                                   !.enter_hr = r.hr]
         /\ trace' = r.trace
         /\ pc' = "StoreMethodAdvice_exit"
  /\ ncalls' = ncalls + 1
  /\ UNCHANGED type_refs

\* StoreMethodAdvice, first half: resolve OnMethodEnterReference() and return
\* its HRESULT if it failed
StoreMethodAdviceEnter ==
  /\ pc = "idle"
  /\ ncalls < MaxCalls
  /\ \E a \in MethodAdvices :
       \E r \in StoreMethodReference(type_ref_cache, member_ref_cache, asm_refs,
                                     a.on_enter) :
         /\ type_ref_cache' = r.type_ref_cache
         /\ member_ref_cache' = r.member_ref_cache
         /\ asm_refs' = r.asm_refs
         /\ call' = [NoCall EXCEPT !.op = "StoreMethodAdvice",
                                   !.on_enter = a.on_enter,
                                   !.on_exit = a.on_exit,
                                   !.hr = r.hr,
                                   !.enter_hr = r.hr]
         /\ trace' = r.trace
         /\ pc' = IF FAILED(r.hr) THEN "idle" ELSE "StoreMethodAdvice_exit"
  /\ ncalls' = ncalls + 1
  /\ UNCHANGED type_refs

\* StoreMethodAdviceExit undoing the enter reference when the exit reference
\* fails
StoreMethodAdviceExit_Rollback ==
  /\ pc = "StoreMethodAdvice_exit"
  /\ \E r \in StoreMethodReference(type_ref_cache, member_ref_cache, asm_refs,
                                   call.on_exit) :
       /\ type_ref_cache' = r.type_ref_cache
       /\ member_ref_cache' =
            IF FAILED(r.hr)
            THEN [k \in (DOMAIN r.member_ref_cache)
                          \ {get_method_cache_key(call.on_enter)} |->
                    r.member_ref_cache[k]]
            ELSE r.member_ref_cache
       /\ asm_refs' = r.asm_refs
       /\ call' = [call EXCEPT !.hr = IF FAILED(r.hr) THEN r.hr ELSE S_OK,
                               !.exit_called = TRUE,
                               !.exit_hr = r.hr]
       /\ trace' = r.trace
  /\ pc' = "idle"
  /\ UNCHANGED <<type_refs, ncalls>>

\* StoreMethodAdvice, second half: resolve OnMethodExitReference() and return
\* its HRESULT if it failed, S_OK otherwise
StoreMethodAdviceExit ==
  /\ pc = "StoreMethodAdvice_exit"
  /\ \E r \in StoreMethodReference(type_ref_cache, member_ref_cache, asm_refs,
                                   call.on_exit) :
       /\ type_ref_cache' = r.type_ref_cache
       /\ member_ref_cache' = r.member_ref_cache
       /\ asm_refs' = r.asm_refs
       /\ call' = [call EXCEPT !.hr = IF FAILED(r.hr) THEN r.hr ELSE S_OK,
                               !.exit_called = TRUE,
                               !.exit_hr = r.hr]
       /\ trace' = r.trace
  /\ pc' = "idle"
  /\ UNCHANGED <<type_refs, ncalls>>

Next ==
  \/ DoFindTypeReference
  \/ DoStoreMethodReference
  \/ StoreMethodAdviceEnter
  \/ StoreMethodAdviceExit

Spec == Init /\ [][Next]_vars

----------------------------------------------------------------------------
\* Construction on its own: a MetadataBuilder is constructed over a store
\* holding any set of assembly references, and the store answers each
\* DefineTypeRefByName as it likes.

\* the assembly references a store may hold when the builder is constructed
CtorAsmRefs == SUBSET {"System.Runtime", "mscorlib", "netstandard", "Lib"}

\* before construction: ModuleMetadata is fresh
InitCtor ==
  /\ asm_refs \in CtorAsmRefs
  /\ type_refs = EmptyCache
  /\ type_ref_cache = EmptyCache
  /\ member_ref_cache = EmptyCache
  /\ pc = "new"
  /\ call = NoCall
  /\ trace = <<>>
  /\ ncalls = 0

\* MetadataBuilder::MetadataBuilder
Construct ==
  /\ pc = "new"
  /\ \E c \in MetadataBuilder(asm_refs) :
       /\ type_refs' = c.type_refs
       /\ trace' = c.trace
  /\ call' = [NoCall EXCEPT !.op = "MetadataBuilder"]
  /\ pc' = "idle"
  /\ UNCHANGED <<asm_refs, type_ref_cache, member_ref_cache, ncalls>>

SpecCtor == InitCtor /\ [][Construct]_vars

----------------------------------------------------------------------------
\* EmitAssemblyRef on its own: the builder emits references for descriptors
\* of every kind of locale and public key.

EmitLocales == {"neutral", "Neutral", "", "en", "fr-FR"}
\* the all-zero key, the keys with one non-zero byte, and a key without zeros
EmitPublicKeys ==
  {[i \in 1..8 |-> IF i = k THEN 183 ELSE 0] : k \in 0..8}
    \cup {<<183, 122, 92, 86, 25, 52, 224, 137>>}
EmitAssemblyReferences ==
  {[name |-> n, version |-> <<4, 0, 0, 0>>, locale |-> l, public_key |-> k] :
     n \in {"MyApp", "Lib"}, l \in EmitLocales, k \in EmitPublicKeys}

\* a call of EmitAssemblyRef
DoEmitAssemblyRef ==
  /\ pc = "idle"
  /\ \E a \in EmitAssemblyReferences :
       \E r \in EmitAssemblyRef(asm_refs, a) :
         /\ asm_refs' = r.asm_refs
         /\ call' = [NoCall EXCEPT !.op = "EmitAssemblyRef",
                                   !.type_reference = [NoType EXCEPT !.assembly = a],
                                   !.hr = r.hr]
         /\ trace' = r.trace
  /\ UNCHANGED <<type_refs, type_ref_cache, member_ref_cache, pc, ncalls>>

SpecEmit == Init /\ [][DoEmitAssemblyRef]_vars

----------------------------------------------------------------------------
\* Vocabulary of the properties.

\* the HRESULT of the latest resolution (a StoreMethodAdvice call makes two)
LastHr ==
  IF call.op = "StoreMethodAdvice"
  THEN IF call.exit_called THEN call.exit_hr ELSE call.enter_hr
  ELSE call.hr
\* the MethodReference of the latest resolution, when it resolved a method
LastMethod ==
  IF call.op = "StoreMethodAdvice" /\ call.exit_called
  THEN call.on_exit
  ELSE call.on_enter
IsMethodResolution == call.op \in {"StoreMethodReference", "StoreMethodAdvice"}
IsTypeCall == call.op = "FindTypeReference"

TypeStoreOps == {"FindTypeRef", "DefineTypeRefByName"}
MemberStoreOps == {"FindMemberRef", "DefineMemberRef"}
TypeKeys == {get_type_cache_key(t) : t \in TypeReferences}
MethodKeys == {get_method_cache_key(m) : m \in MethodReferences}

\* every entry of cache c is in cache d with the same token
Preserved(c, d) == \A k \in DOMAIN c : k \in DOMAIN d /\ d[k] = c[k]

----------------------------------------------------------------------------
\* C1 - Cache idempotence.  A successful FindTypeReference leaves the returned
\* token cached under the descriptor's key; a FindTypeReference for a cached
\* key returns S_OK with exactly the cached token and issues no store
\* operation; repeating a successful FindTypeReference right away returns the
\* identical token; a StoreMethodReference for a cached method key returns
\* S_OK, issues no store operation and changes nothing.
C1_TypeHit ==
  (call'.op = "FindTypeReference"
     /\ get_type_cache_key(call'.type_reference) \in DOMAIN type_ref_cache)
  => /\ call'.hr = S_OK
     /\ call'.type_ref_out =
          type_ref_cache[get_type_cache_key(call'.type_reference)]
     /\ StoreCalls(trace') = <<>>
     /\ type_ref_cache' = type_ref_cache
C1_TypeTwice ==
  (IsTypeCall /\ call.hr = S_OK /\ call'.op = "FindTypeReference"
     /\ call'.type_reference = call.type_reference)
  => /\ call'.hr = S_OK
     /\ call'.type_ref_out = call.type_ref_out
     /\ StoreCalls(trace') = <<>>
C1_MethodHit ==
  (IsMethodResolution'
     /\ get_method_cache_key(LastMethod') \in DOMAIN member_ref_cache)
  => /\ LastHr' = S_OK
     /\ StoreCalls(trace') = <<>>
     /\ member_ref_cache' = member_ref_cache
     /\ type_ref_cache' = type_ref_cache
     /\ asm_refs' = asm_refs
C1_SuccessIsCached ==
  /\ (IsTypeCall /\ call.hr = S_OK)
       => /\ get_type_cache_key(call.type_reference) \in DOMAIN type_ref_cache
          /\ type_ref_cache[get_type_cache_key(call.type_reference)]
               = call.type_ref_out
  /\ (IsMethodResolution /\ LastHr = S_OK)
       => get_method_cache_key(LastMethod) \in DOMAIN member_ref_cache
C1_CacheIdempotence ==
  /\ []C1_SuccessIsCached
  /\ [][C1_TypeHit /\ C1_TypeTwice /\ C1_MethodHit]_vars
\* a second FindTypeReference for the same descriptor was answered from the cache
C1_Witness ==
  /\ IsTypeCall /\ ncalls = 2 /\ call.hr = S_OK
  /\ Len(trace) = 1 /\ trace[1].op = "TryGetWrapperParentTypeRef"
  /\ trace[1].out = call.type_ref_out /\ call.type_ref_out # mdTypeRefNil

\* C2 - Failure atomicity, as claimed: whenever a resolution returns an
\* error, type_ref_cache and member_ref_cache are exactly what they were
\* before that resolution started.
C2_FailureAtomicity ==
  [][FAILED(LastHr')
       => /\ type_ref_cache' = type_ref_cache
          /\ member_ref_cache' = member_ref_cache]_vars

\* C2, amended - whenever a resolution returns an error, member_ref_cache is
\* exactly what it was, no prior entry of type_ref_cache is changed or
\* removed, and a failing FindTypeReference call inserts nothing; the one
\* insertion a failing resolution makes is the type_ref_cache entry of the
\* owning type of a StoreMethodReference that resolved that type and then
\* failed at its member search or define.
C2_FailedStep ==
  FAILED(LastHr')
  => /\ member_ref_cache' = member_ref_cache
     /\ Preserved(type_ref_cache, type_ref_cache')
     /\ IsTypeCall' => type_ref_cache' = type_ref_cache
     /\ IsMethodResolution' =>
          (DOMAIN type_ref_cache') \ (DOMAIN type_ref_cache)
            \subseteq {get_type_cache_key(LastMethod'.type_reference)}
     /\ type_ref_cache' # type_ref_cache =>
          /\ IsMethodResolution'
          /\ trace'[Len(trace')].op \in MemberStoreOps
          /\ trace'[Len(trace')].hr = LastHr'
          /\ \E i \in DOMAIN trace' :
               /\ trace'[i].op = "SetWrapperParentTypeRef"
               /\ trace'[i].key = get_type_cache_key(LastMethod'.type_reference)
C2_FailureKeepsPriorEntries == [][C2_FailedStep]_vars
\* a StoreMethodReference that cached its owning type and then failed
C2_Witness ==
  /\ IsMethodResolution /\ FAILED(LastHr)
  /\ \E i \in DOMAIN trace : trace[i].op = "SetWrapperParentTypeRef"
  /\ get_type_cache_key(LastMethod.type_reference) \in DOMAIN type_ref_cache
  /\ get_method_cache_key(LastMethod) \notin DOMAIN member_ref_cache

\* C3 - Once a cache entry exists for a key, no later resolution issues a
\* store find or define for the entity of that key: no FindTypeRef or
\* DefineTypeRefByName for a type whose key is in type_ref_cache (also not
\* inside StoreMethodReference for another method of that type), and no
\* FindMemberRef or DefineMemberRef for a method whose key is in
\* member_ref_cache.
TypeScope(t) ==
  IF assemblyName = t.assembly.name
  THEN module_
  ELSE AssemblyRefToken(t.assembly.name)
C3_Step ==
  \A i \in DOMAIN trace' :
    /\ trace'[i].op \in TypeStoreOps =>
         /\ trace'[i].key \notin DOMAIN type_ref_cache
         /\ \A t \in TypeReferences :
              get_type_cache_key(t) \in DOMAIN type_ref_cache
                => ~(trace'[i].scope = TypeScope(t)
                       /\ trace'[i].name = t.type_name)
    /\ trace'[i].op \in MemberStoreOps =>
         trace'[i].key \notin DOMAIN member_ref_cache
C3_NoRequeryOnceCached == [][C3_Step]_vars
\* a StoreMethodReference that took the owning type from the cache and went
\* to the store for the member only
C3_Witness ==
  /\ IsMethodResolution
  /\ \E i \in DOMAIN trace :
       trace[i].op = "TryGetWrapperParentTypeRef" /\ trace[i].out # mdTypeRefNil
  /\ \E i \in DOMAIN trace : trace[i].op = "FindMemberRef"
  /\ \A i \in DOMAIN trace : trace[i].op \notin TypeStoreOps

\* C4 - Token stability: once type_ref_cache or member_ref_cache maps a key
\* to a token, the key maps to the same token in every later state; no
\* operation overwrites or removes an entry.
C4_TokenStability ==
  [][/\ Preserved(type_ref_cache, type_ref_cache')
     /\ Preserved(member_ref_cache, member_ref_cache')]_vars
\* a resolution ran to its end with entries already in both caches
C4_Witness ==
  /\ ncalls = 2 /\ pc = "idle"
  /\ Cardinality(DOMAIN type_ref_cache) = 2
  /\ Cardinality(DOMAIN member_ref_cache) >= 2
  /\ \E i \in DOMAIN trace : trace[i].op = "SetWrapperMemberRef"

\* C5 - Branch selection in FindTypeReference on a cache miss.  For a type of
\* the module's own assembly the resolution issues exactly one type store
\* operation, DefineTypeRefByName in scope module_, and neither FindAssemblyRef
\* nor FindTypeRef; for any other assembly every DefineTypeRefByName comes
\* right after a FindTypeRef of the same resolution, in the scope of the
\* assembly token found, that answered "record not found".
TypeResolutionOps == {"FindAssemblyRef", "FindTypeRef", "DefineTypeRefByName"}
TypeMissAt(i) ==
  trace[i].op = "TryGetWrapperParentTypeRef" /\ trace[i].out = mdTypeRefNil
C5_BranchAt(i) ==
  LET key == trace[i].key
      ops == {j \in DOMAIN trace : trace[j].op \in TypeResolutionOps}
  IN  IF key[1].name = assemblyName
      THEN /\ ops = {i + 1}
           /\ trace[i + 1].op = "DefineTypeRefByName"
           /\ trace[i + 1].scope = module_
           /\ trace[i + 1].name = key[2]
      ELSE \A j \in ops :
             trace[j].op = "DefineTypeRefByName"
               => /\ j - 2 > i
                  /\ trace[j - 2].op = "FindAssemblyRef"
                  /\ trace[j - 2].name = key[1].name
                  /\ trace[j - 1].op = "FindTypeRef"
                  /\ trace[j - 1].hr = CLDB_E_RECORD_NOTFOUND
                  /\ trace[j - 1].scope = trace[j - 2].out
                  /\ trace[j - 1].name = key[2]
                  /\ trace[j].scope = trace[j - 2].out
                  /\ trace[j].name = key[2]
C5_BranchSelection ==
  \A i \in DOMAIN trace : TypeMissAt(i) => C5_BranchAt(i)
\* a direct FindTypeReference for a type of another assembly that searched,
\* found nothing and defined
C5_Witness ==
  /\ IsTypeCall
  /\ call.type_reference.assembly.name # assemblyName
  /\ \E j \in DOMAIN trace :
       trace[j].op = "DefineTypeRefByName" /\ trace[j].hr = S_OK

\* C6 - Not-found fallback, type path and member path.  When the search
\* answers "record not found" and the define that follows succeeds, the
\* resolution succeeds and the cache entry of the key holds the token the
\* define returned; when the search returns a token, the resolution
\* succeeds, the cache entry holds the token of the search, and no define is
\* issued.
C6_TypeAt(i) ==
  LET key == trace[i].key
      cached(tok) ==
        /\ key \in DOMAIN type_ref_cache
        /\ type_ref_cache[key] = tok
        /\ IsTypeCall => call.hr = S_OK /\ call.type_ref_out = tok
  IN  /\ (trace[i].hr = CLDB_E_RECORD_NOTFOUND /\ i < Len(trace)
            /\ trace[i + 1].op = "DefineTypeRefByName"
            /\ trace[i + 1].hr = S_OK)
            => cached(trace[i + 1].out)
      /\ trace[i].hr = S_OK
            => /\ cached(trace[i].out)
               /\ \A j \in DOMAIN trace : trace[j].op # "DefineTypeRefByName"
C6_MemberAt(i) ==
  LET key == trace[i].key
      cached(tok) ==
        /\ LastHr = S_OK
        /\ key \in DOMAIN member_ref_cache
        /\ member_ref_cache[key] = tok
  IN  /\ (trace[i].hr = CLDB_E_RECORD_NOTFOUND /\ i < Len(trace)
            /\ trace[i + 1].op = "DefineMemberRef"
            /\ trace[i + 1].hr = S_OK)
            => cached(trace[i + 1].out)
      /\ trace[i].hr = S_OK
            => /\ cached(trace[i].out)
               /\ \A j \in DOMAIN trace : trace[j].op # "DefineMemberRef"
C6_NotFoundFallback ==
  \A i \in DOMAIN trace :
    /\ trace[i].op = "FindTypeRef" => C6_TypeAt(i)
    /\ trace[i].op = "FindMemberRef" => C6_MemberAt(i)
\* a resolution in which both searches found nothing and both defines succeeded
C6_Witness ==
  /\ \E i \in DOMAIN trace :
       /\ trace[i].op = "FindTypeRef" /\ trace[i].hr = CLDB_E_RECORD_NOTFOUND
       /\ trace[i + 1].op = "DefineTypeRefByName" /\ trace[i + 1].hr = S_OK
  /\ \E i \in DOMAIN trace :
       /\ trace[i].op = "FindMemberRef" /\ trace[i].hr = CLDB_E_RECORD_NOTFOUND
       /\ trace[i + 1].op = "DefineMemberRef" /\ trace[i + 1].hr = S_OK

\* C7 - Missing assembly reference.  When FindTypeReference misses the cache
\* for a type of another assembly and the store has no reference to that
\* assembly, the call fails, issues no DefineAssemblyRef, no FindTypeRef and
\* no DefineTypeRefByName, and leaves type_ref_cache unchanged.
MissingAssemblyRef(tr) ==
  \E i \in DOMAIN tr :
    /\ tr[i].op = "FindAssemblyRef"
    /\ tr[i].key \in TypeKeys
    /\ tr[i].out = mdAssemblyRefNil
C7_Step ==
  MissingAssemblyRef(trace')
  => /\ FAILED(LastHr')
     /\ IsTypeCall' => call'.type_ref_out = mdTypeRefNil
     /\ \A j \in DOMAIN trace' :
          trace'[j].op \notin {"DefineAssemblyRef", "FindTypeRef",
                               "DefineTypeRefByName"}
     /\ type_ref_cache' = type_ref_cache
C7_MissingAssemblyReference == [][C7_Step]_vars
\* a direct FindTypeReference that failed for want of the assembly reference
C7_Witness ==
  /\ IsTypeCall /\ call.hr = E_FAIL
  /\ MissingAssemblyRef(trace)
  /\ call.type_reference.assembly.name \notin asm_refs

\* C8 - "Record not found" never escapes.  No FindTypeReference,
\* StoreMethodReference or StoreMethodAdvice returns it; a search that
\* answers it is followed at once by the define for the same scope and name,
\* a failing define ends the call with the define's HRESULT, and when the
\* define is the last store call of the resolution its HRESULT is the result.
DefineOf(op) ==
  IF op = "FindTypeRef" THEN "DefineTypeRefByName" ELSE "DefineMemberRef"
LastStoreCall(i) ==
  \A j \in DOMAIN trace : j > i => ~IsStoreOp(trace[j])
C8_NotFoundNeverEscapes ==
  /\ call.hr # CLDB_E_RECORD_NOTFOUND
  /\ call.enter_hr # CLDB_E_RECORD_NOTFOUND
  /\ call.exit_hr # CLDB_E_RECORD_NOTFOUND
  /\ \A i \in DOMAIN trace :
       trace[i].hr = CLDB_E_RECORD_NOTFOUND
       => /\ trace[i].op \in {"FindTypeRef", "FindMemberRef"}
          /\ i < Len(trace)
          /\ trace[i + 1].op = DefineOf(trace[i].op)
          /\ trace[i + 1].scope = trace[i].scope
          /\ trace[i + 1].name = trace[i].name
          /\ trace[i + 1].sig = trace[i].sig
          /\ FAILED(trace[i + 1].hr) => i + 1 = Len(trace)
          /\ LastStoreCall(i + 1) => LastHr = trace[i + 1].hr
\* a search found nothing and the define that followed failed
C8_Witness ==
  \E i \in DOMAIN trace :
    /\ trace[i].hr = CLDB_E_RECORD_NOTFOUND
    /\ i < Len(trace)
    /\ FAILED(trace[i + 1].hr)
    /\ LastHr = trace[i + 1].hr

\* C9 - Advice short-circuit.  In StoreMethodAdvice, when resolving on_enter
\* fails, the call returns at once with exactly that HRESULT and on_exit is
\* never resolved: no store operation and no cache lookup is made for it;
\* when on_enter succeeds, on_exit is resolved and the value returned is its
\* result.
C9_AdviceShortCircuit ==
  call.op = "StoreMethodAdvice"
  => /\ FAILED(call.enter_hr)
          => /\ pc = "idle"
             /\ ~call.exit_called
             /\ call.hr = call.enter_hr
             /\ \A i \in DOMAIN trace :
                  trace[i].key \in
                    {<<>>, get_method_cache_key(call.on_enter),
                     get_type_cache_key(call.on_enter.type_reference)}
     /\ ~FAILED(call.enter_hr)
          => IF pc = "idle"
             THEN call.exit_called /\ call.hr = call.exit_hr
             ELSE ~call.exit_called
\* a StoreMethodAdvice whose on_enter failed after its type was resolved
C9_Witness ==
  /\ call.op = "StoreMethodAdvice"
  /\ FAILED(call.enter_hr)
  /\ call.hr = call.enter_hr
  /\ pc = "idle"
  /\ \E i \in DOMAIN trace : trace[i].op \in MemberStoreOps

\* C10 - No rollback in StoreMethodAdvice.  When on_enter resolved and on_exit
\* then fails, member_ref_cache still maps on_enter's method key to the token
\* the first step stored and type_ref_cache still maps on_enter's type key
\* to its token.
C10_Step ==
  (pc = "StoreMethodAdvice_exit" /\ FAILED(call'.exit_hr))
  => LET mkey == get_method_cache_key(call.on_enter)
         tkey == get_type_cache_key(call.on_enter.type_reference)
     IN  /\ call'.hr = call'.exit_hr
         /\ mkey \in DOMAIN member_ref_cache
         /\ mkey \in DOMAIN member_ref_cache'
         /\ member_ref_cache'[mkey] = member_ref_cache[mkey]
         /\ tkey \in DOMAIN type_ref_cache
         /\ tkey \in DOMAIN type_ref_cache'
         /\ type_ref_cache'[tkey] = type_ref_cache[tkey]
C10_NoRollback == [][C10_Step]_vars
\* a StoreMethodAdvice whose on_enter was resolved and whose on_exit failed
C10_Witness ==
  /\ call.op = "StoreMethodAdvice" /\ pc = "idle"
  /\ call.exit_called /\ FAILED(call.exit_hr) /\ call.enter_hr = S_OK
  /\ get_method_cache_key(call.on_enter) \in DOMAIN member_ref_cache

\* C11 - Store failures are terminal and propagated unchanged.  In
\* FindTypeReference and StoreMethodReference, when a store operation
\* (DefineAssemblyRef, FindTypeRef, DefineTypeRefByName, FindMemberRef,
\* DefineMemberRef) answers a failure other than a search's "record not
\* found", that operation is the last thing the resolution does (no further
\* store operation, no retry, no cache write) and the resolution returns
\* exactly that HRESULT.
IsSearchNotFound(e) ==
  e.op \in {"FindTypeRef", "FindMemberRef"} /\ e.hr = CLDB_E_RECORD_NOTFOUND
IsStoreFailure(e) == IsStoreOp(e) /\ FAILED(e.hr) /\ ~IsSearchNotFound(e)
C11_StoreFailureIsTerminal ==
  (IsTypeCall \/ IsMethodResolution)
  => \A i \in DOMAIN trace :
       IsStoreFailure(trace[i])
       => /\ i = Len(trace)
          /\ LastHr = trace[i].hr
          /\ pc = "idle" /\ call.hr = trace[i].hr
          /\ \A j \in DOMAIN trace :
               (trace[j].op = trace[i].op /\ trace[j].name = trace[i].name)
                 => j = i
\* a method resolution ended by a failing DefineAssemblyRef or
\* DefineTypeRefByName, whose HRESULT it returned
C11_Witness ==
  /\ IsMethodResolution /\ FAILED(LastHr)
  /\ trace[Len(trace)].op \in {"DefineAssemblyRef", "DefineTypeRefByName"}
  /\ trace[Len(trace)].hr = LastHr
  /\ LastHr \in StoreFailures

----------------------------------------------------------------------------
\* Vocabulary of the properties about construction.

IsConstructed == call.op = "MetadataBuilder" /\ pc = "idle"
\* positions of the trace holding a lookup of a candidate assembly / a define
\* of a foundational type
CandidateLookups == {i \in DOMAIN trace : trace[i].op = "FindAssemblyRef"}
SystemTypeDefines == {i \in DOMAIN trace : trace[i].op = "DefineTypeRefByName"}
NoCandidateFound ==
  \A i \in DOMAIN possible_assembly_names :
    possible_assembly_names[i] \notin asm_refs

\* C12 - Initialization with no foundational assembly, as stated: when the
\* store has a reference to none of the candidate assemblies, construction
\* completes, issues no DefineTypeRefByName for a foundational type name and
\* leaves type_refs empty.
C12_NoAssemblySkipsTypes ==
  (IsConstructed /\ NoCandidateFound)
  => /\ SystemTypeDefines = {}
     /\ type_refs = EmptyCache
\* a construction that found no candidate, called DefineTypeRefByName in scope
\* mdAssemblyRefNil for both names and recorded the tokens the store answered
C12_Witness ==
  /\ IsConstructed /\ NoCandidateFound
  /\ Cardinality(SystemTypeDefines) = Len(type_names)
  /\ \A i \in SystemTypeDefines : trace[i].scope = mdAssemblyRefNil
  /\ DOMAIN type_refs = {type_names[i] : i \in DOMAIN type_names}

\* C17 - Initialization candidate order.  The constructor looks the candidate
\* assemblies up in the order System.Runtime, mscorlib, netstandard; it stops
\* at the first one the store has a reference to and looks up no later
\* candidate; the token found is the scope of every DefineTypeRefByName of a
\* foundational type.
C17_CandidateOrder ==
  IsConstructed
  => LET n == Cardinality(CandidateLookups)
     IN  /\ CandidateLookups = 1..n
         /\ n \in 1..Len(possible_assembly_names)
         /\ \A i \in 1..n :
              /\ trace[i].name = possible_assembly_names[i]
              /\ trace[i].out = FindAssemblyRef(asm_refs, trace[i].name)
              /\ i < n => trace[i].out = mdAssemblyRefNil
         /\ n < Len(possible_assembly_names) => trace[n].out # mdAssemblyRefNil
         /\ \A j \in SystemTypeDefines :
              /\ j > n
              /\ trace[j].scope = trace[n].out
\* System.Runtime was missing, mscorlib was found, netstandard (also there) was
\* not looked up, and the foundational types were defined in mscorlib's scope
C17_Witness ==
  /\ IsConstructed
  /\ asm_refs \cap {"System.Runtime", "mscorlib", "netstandard"}
       = {"mscorlib", "netstandard"}
  /\ Cardinality(CandidateLookups) = 2
  /\ trace[2].name = "mscorlib"
  /\ \E j \in SystemTypeDefines : trace[j].scope = AssemblyRefToken("mscorlib")

\* C18 - Initialization is lenient per name.  DefineTypeRefByName is called
\* once for each foundational type name, System.Object then System.Exception,
\* whatever the other call answered; after construction a name is a key of
\* type_refs exactly when its own call succeeded, and then with the token
\* that call returned; construction itself never fails.
C18_LenientPerName ==
  /\ pc = "new" => type_refs = EmptyCache
  /\ IsConstructed
     => LET d(k) == trace[Len(trace) - Len(type_names) + k]
        IN  /\ Cardinality(SystemTypeDefines) = Len(type_names)
            /\ \A k \in DOMAIN type_names :
                 /\ d(k).op = "DefineTypeRefByName"
                 /\ d(k).name = type_names[k]
                 /\ type_names[k] \in DOMAIN type_refs <=> ~FAILED(d(k).hr)
                 /\ ~FAILED(d(k).hr) => type_refs[type_names[k]] = d(k).out
            /\ DOMAIN type_refs \subseteq {type_names[k] : k \in DOMAIN type_names}
\* the store refused System.Object and accepted System.Exception
C18_Witness ==
  /\ IsConstructed
  /\ FAILED(trace[Len(trace) - 1].hr) /\ trace[Len(trace) - 1].name = "System.Object"
  /\ trace[Len(trace)].hr = S_OK /\ trace[Len(trace)].name = "System.Exception"
  /\ DOMAIN type_refs = {"System.Exception"}

\* C13 - Same-module scenario.  With both caches empty, a StoreMethodReference
\* for a method of the module's own assembly, against a store whose defines
\* succeed and whose member search answers "record not found", succeeds; its
\* store calls are DefineAssemblyRef, DefineTypeRefByName in scope module_,
\* FindMemberRef and DefineMemberRef in the scope of the type token, once
\* each and in this order, with no FindAssemblyRef and no FindTypeRef;
\* afterwards the type key and the method key are cached with the tokens
\* defined.  A repetition of a successful method resolution with the same
\* descriptor issues no store operation and succeeds.
DefineOps == {"DefineAssemblyRef", "DefineTypeRefByName", "DefineMemberRef"}
C13_FirstCall ==
  (/\ type_ref_cache = EmptyCache /\ member_ref_cache = EmptyCache
   /\ IsMethodResolution'
   /\ LastMethod'.type_reference.assembly.name = assemblyName
   /\ \A i \in DOMAIN trace' :
        /\ trace'[i].op \in DefineOps => trace'[i].hr = S_OK
        /\ trace'[i].op = "FindMemberRef" => trace'[i].hr = CLDB_E_RECORD_NOTFOUND)
  => LET sc == StoreCalls(trace')
         m == LastMethod'
         tkey == get_type_cache_key(m.type_reference)
         mkey == get_method_cache_key(m)
     IN  /\ LastHr' = S_OK
         /\ [i \in DOMAIN sc |-> sc[i].op]
              = <<"DefineAssemblyRef", "DefineTypeRefByName", "FindMemberRef",
                  "DefineMemberRef">>
         /\ sc[2].scope = module_ /\ sc[2].name = m.type_reference.type_name
         /\ sc[3].scope = sc[2].out /\ sc[3].name = m.method_name
         /\ sc[4].scope = sc[2].out /\ sc[4].name = m.method_name
         /\ DOMAIN type_ref_cache' = {tkey} /\ type_ref_cache'[tkey] = sc[2].out
         /\ DOMAIN member_ref_cache' = {mkey}
         /\ member_ref_cache'[mkey] = sc[4].out
C13_Repeat ==
  (/\ IsMethodResolution /\ LastHr = S_OK
   /\ IsMethodResolution' /\ LastMethod' = LastMethod)
  => /\ LastHr' = S_OK
     /\ StoreCalls(trace') = <<>>
     /\ type_ref_cache' = type_ref_cache
     /\ member_ref_cache' = member_ref_cache
C13_SameModuleScenario == [][C13_FirstCall /\ C13_Repeat]_vars
\* the scenario has run: the first resolution, for a method of MyApp, defined
\* the type in module scope, missed the member search and defined the member
C13_Witness ==
  /\ call.op = "StoreMethodReference" /\ call.hr = S_OK /\ ncalls = 1
  /\ call.on_enter.type_reference.assembly.name = assemblyName
  /\ Len(StoreCalls(trace)) = 4
  /\ \E i \in DOMAIN trace :
       trace[i].op = "DefineTypeRefByName" /\ trace[i].scope = module_
  /\ \E i \in DOMAIN trace :
       trace[i].op = "FindMemberRef" /\ trace[i].hr = CLDB_E_RECORD_NOTFOUND
  /\ Cardinality(DOMAIN type_ref_cache) = 1
  /\ Cardinality(DOMAIN member_ref_cache) = 1

----------------------------------------------------------------------------
\* Vocabulary of the properties about EmitAssemblyRef.

IsEmitCall == call.op = "EmitAssemblyRef"
\* the descriptor of the latest EmitAssemblyRef call
EmittedAssembly == call.type_reference.assembly
\* the locale is a wide string: the bytes it takes, for the sizes of wchar_t
\* in use (2 on Windows, 4 elsewhere)
LocaleByteLengths(locale) == {Len(locale) * w : w \in {2, 4}}

\* C14 - Locale sentinel, as stated: for locale "neutral" DefineAssemblyRef
\* gets an absent locale and locale length 0; for every other locale it gets
\* the string and a locale length equal to the byte length of the string.
C14_LocaleByteLength ==
  IsEmitCall
  => /\ Len(trace) = 1 /\ trace[1].op = "DefineAssemblyRef"
     /\ IF EmittedAssembly.locale = "neutral"
        THEN trace[1].szLocale = nullptr /\ trace[1].cbLocale = 0
        ELSE /\ trace[1].szLocale = EmittedAssembly.locale
             /\ trace[1].cbLocale \in LocaleByteLengths(EmittedAssembly.locale)

\* C14, amended - for locale "neutral" (exactly this spelling)
\* DefineAssemblyRef gets an absent locale and locale length 0; for every
\* other locale it gets the string and a locale length equal to the number of
\* characters of the string.
C14_LocaleSentinel ==
  IsEmitCall
  => /\ Len(trace) = 1 /\ trace[1].op = "DefineAssemblyRef"
     /\ IF EmittedAssembly.locale = "neutral"
        THEN trace[1].szLocale = nullptr /\ trace[1].cbLocale = 0
        ELSE /\ trace[1].szLocale = EmittedAssembly.locale
             /\ trace[1].szLocale # nullptr
             /\ trace[1].cbLocale = Len(EmittedAssembly.locale)
\* "fr-FR" was emitted with locale length 5
C14_Witness ==
  /\ IsEmitCall /\ EmittedAssembly.locale = "fr-FR"
  /\ trace[1].szLocale = "fr-FR" /\ trace[1].cbLocale = 5

\* C15 - Public key sentinel.  The key length DefineAssemblyRef gets is 0
\* exactly when the descriptor's public key is the all-zero key and 8 for
\* every key with a non-zero byte; the key itself is handed over in both
\* cases.
C15_PublicKeySentinel ==
  IsEmitCall
  => LET key == EmittedAssembly.public_key
         zero == \A i \in DOMAIN key : key[i] = 0
     IN  /\ Len(trace) = 1 /\ trace[1].op = "DefineAssemblyRef"
         /\ trace[1].cbKey = 0 <=> zero
         /\ ~zero => trace[1].cbKey = 8
         /\ trace[1].pubkey = key /\ Len(trace[1].pubkey) = 8
\* a key whose only non-zero byte is its last one was emitted with length 8
C15_Witness ==
  /\ IsEmitCall
  /\ EmittedAssembly.public_key[1] = 0 /\ EmittedAssembly.public_key[8] # 0
  /\ trace[1].cbKey = 8 /\ trace[1].pubkey = EmittedAssembly.public_key

\* C16 - Step order of StoreMethodReference on a member-cache miss.
\* DefineAssemblyRef for the descriptor's assembly is the first store
\* operation of the resolution and is issued exactly once, whether or not the
\* owning type is cached, the store already has the reference, or the
\* assembly is the module's own; when it succeeds the type is resolved next
\* (the type cache is consulted, then the store); FindMemberRef comes after
\* every type operation and is scoped to the resolved type token;
\* SetWrapperMemberRef is the last step, right after a member search or
\* define that succeeded, and caches the token of that operation.
IsMemberMiss ==
  /\ IsMethodResolution
  /\ trace[1].op = "TryGetWrapperMemberRef"
  /\ trace[1].out = mdMemberRefNil
C16_StepOrder ==
  IsMemberMiss
  => LET a == LastMethod.type_reference.assembly
         tkey == get_type_cache_key(LastMethod.type_reference)
         emits == {i \in DOMAIN trace : trace[i].op = "DefineAssemblyRef"}
     IN  /\ emits = {2}
         /\ trace[2].name = a.name
         /\ trace[2].hr = S_OK
              => /\ trace[3].op = "TryGetWrapperParentTypeRef"
                 /\ trace[3].key = tkey
         /\ \A i \in DOMAIN trace :
              /\ trace[i].op \in TypeResolutionOps => i > 3
              /\ trace[i].op = "FindMemberRef"
                   => /\ \A j \in DOMAIN trace :
                           (trace[j].op \in TypeResolutionOps
                              \/ trace[j].op \in {"TryGetWrapperParentTypeRef",
                                                  "SetWrapperParentTypeRef"})
                           => j < i
                      /\ tkey \in DOMAIN type_ref_cache
                      /\ trace[i].scope = type_ref_cache[tkey]
                      /\ trace[i].scope # mdTypeRefNil
              /\ trace[i].op = "SetWrapperMemberRef"
                   => /\ i = Len(trace)
                      /\ trace[i - 1].op \in MemberStoreOps
                      /\ trace[i - 1].hr = S_OK
                      /\ trace[i].out = trace[i - 1].out
         /\ get_method_cache_key(LastMethod) \in DOMAIN member_ref_cache
              <=> trace[Len(trace)].op = "SetWrapperMemberRef"
\* a second resolution, for a method of the module's own assembly, emitted the
\* assembly reference again although the owning type came from the cache
C16_Witness ==
  /\ IsMemberMiss /\ ncalls = 2
  /\ LastMethod.type_reference.assembly.name = assemblyName
  /\ trace[2].op = "DefineAssemblyRef" /\ trace[2].hr = S_OK
  /\ trace[3].op = "TryGetWrapperParentTypeRef" /\ trace[3].out # mdTypeRefNil
  /\ trace[4].op = "FindMemberRef" /\ trace[4].scope = trace[3].out
  /\ trace[Len(trace)].op = "SetWrapperMemberRef"

\* C19 - In every state reachable by FindTypeReference, StoreMethodReference
\* and StoreMethodAdvice calls, every method key of member_ref_cache has the
\* key of its owning type in type_ref_cache.
C19_MemberImpliesType ==
  \A m \in MethodReferences :
    get_method_cache_key(m) \in DOMAIN member_ref_cache
      => get_type_cache_key(m.type_reference) \in DOMAIN type_ref_cache
\* methods of two types are cached, and both types with them
C19_Witness ==
  /\ \A t \in TypeReferences :
       /\ get_type_cache_key(t) \in DOMAIN type_ref_cache
       /\ \E m \in MethodReferences :
            /\ m.type_reference = t
            /\ get_method_cache_key(m) \in DOMAIN member_ref_cache
  /\ pc = "idle"

\* C20 - With a store in which a successful DefineAssemblyRef for a name
\* makes every later FindAssemblyRef for it answer a token, no
\* StoreMethodReference (alone or inside StoreMethodAdvice) finds the assembly
\* reference missing or returns E_FAIL for it; a resolution that finds it
\* missing is a direct FindTypeReference call for a type of another assembly
\* which the store has no reference to, and it returns E_FAIL.
C20_MissingOnlyInDirectCalls ==
  /\ IsMethodResolution
       => /\ ~MissingAssemblyRef(trace)
          /\ LastHr # E_FAIL /\ call.hr # E_FAIL
          /\ \A i \in DOMAIN trace :
               trace[i].op = "FindAssemblyRef"
                 => \E j \in 1..(i - 1) :
                      /\ trace[j].op = "DefineAssemblyRef"
                      /\ trace[j].name = trace[i].name
                      /\ trace[j].hr = S_OK
  /\ (IsTypeCall \/ IsMethodResolution) /\ MissingAssemblyRef(trace)
       => /\ IsTypeCall
          /\ call.hr = E_FAIL
          /\ call.type_reference.assembly.name # assemblyName
          /\ call.type_reference.assembly.name \notin asm_refs
\* a StoreMethodReference for a type of Lib succeeded over a store that had no
\* reference to Lib: it emitted the reference and then found it
C20_Witness ==
  /\ IsMethodResolution /\ LastHr = S_OK
  /\ "netstandard" \notin asm_refs
  /\ LastMethod.type_reference.assembly.name = "Lib"
  /\ \E i \in DOMAIN trace :
       /\ trace[i].op = "FindAssemblyRef" /\ trace[i].name = "Lib"
       /\ trace[i].out # mdAssemblyRefNil
  /\ ncalls = 1

====
